---- MODULE Spec2Model ----
(***************************************************************************)
(* Continuous-batching inference pipeline of bolt-xl: the scheduler        *)
(* (engine/scheduler.rs), the sequence model (engine/sequence.rs) and the  *)
(* engine's add_request / step (engine/llm_engine.rs), driven by the two   *)
(* tasks spawned in main.rs (admission task and step loop).                *)
(***************************************************************************)
EXTENDS Integers, Sequences, FiniteSets, TLC

(* ---- bounds of the model ---- *)
MaxRequests == 2          \* requests the admission task submits
MaxPromptLen == 3         \* longest tokenized prompt
MaxOutputLen == 3         \* the model emits EOS at the latest as this token
MaxConfig == 2            \* largest value of a configured limit

(* ---- tokenizer of the model ---- *)
EosToken == 0             \* tokenizer.token_to_id("</s>")
TextTokens == {1}
Vocab == {EosToken} \cup TextTokens

VARIABLES
    config,           \* Config: max_num_batched_tokens, max_num_seqs, max_model_len
    request_counter,  \* LLMEngine.request_counter
    seqs,             \* request id -> the Sequence of its SequenceGroup
    waiting,          \* Scheduler.waiting  (queue of request ids)
    running,          \* Scheduler.running  (queue of request ids)
    batch,            \* the Batch held by the step in progress (clones)
    sink,             \* request id -> deltas received on the channel
    pc,               \* position of the step loop inside LLMEngine::step
    scheduler_lock,   \* holder of LLMEngine.scheduler (the tokio Mutex)
    cache,            \* ModelExecutor.cache: request ids holding a KVCache
    alloc,            \* a BlockAllocator and a BlockTable (block_manager.rs)
    det,              \* two engines fed the same admissions (determinism)
    tokenizer_errors, \* history: requests for which encode or decode failed
    sampler,          \* a Sampler on its own: its rng and its latest call
    forward,          \* history: what ModelExecutor::run and the update were handed
    receiver_dropped  \* requests whose caller dropped the receiving end of the sink

vars == <<config, request_counter, seqs, waiting, running, batch, sink, pc,
          scheduler_lock, cache, alloc, det, tokenizer_errors, sampler,
          forward, receiver_dropped>>

\* the state outside the engine under study in Spec
others == <<alloc, det, tokenizer_errors, sampler, forward, receiver_dropped>>

(* ---- sequence.rs ---- *)
NewSequence(prompt_len) ==
    [prompt_len       |-> prompt_len,
     output_token_ids |-> <<>>,
     output_text      |-> <<>>,
     status           |-> "Waiting",
     sender           |-> TRUE]

get_len(seq) == seq.prompt_len + Len(seq.output_token_ids)

is_finished(seq) == seq.status = "Finished"

\* one sequence per group: the sum over seqs is the length of that sequence
total_tokens(seq) == get_len(seq)

set_status(seq, status) == [seq EXCEPT !.status = status]

append_token_idTwice(seq, token_id) ==
    [seq EXCEPT !.output_token_ids = Append(Append(@, token_id), token_id)]
append_token_id(seq, token_id) ==
    [seq EXCEPT !.output_token_ids = Append(@, token_id)]

(* ---- tokenizer (tokenizers crate), as the engine uses it ---- *)
\* text of each token; the EOS token is special and is skipped by
\* decode(ids, skip_special_tokens = true)
TokenText(token_id) ==
    IF token_id \in TextTokens THEN <<"a", "b">> ELSE <<>>

RECURSIVE Decode(_)
Decode(ids) ==
    IF ids = <<>> THEN <<>>
    ELSE Decode(SubSeq(ids, 1, Len(ids) - 1)) \o TokenText(ids[Len(ids)])

\* tokens the sampler can return for a sequence: any token of the
\* vocabulary, and EOS at the latest as the MaxOutputLen-th token
SampleSet(seq) ==
    IF Len(seq.output_token_ids) + 1 >= MaxOutputLen THEN {EosToken} ELSE Vocab

(* ---- scheduler.rs ---- *)
BatchEntry(request_id, seq, prefill) ==
    [request_id |-> request_id, seq |-> seq, prefill |-> prefill]

\* scheduler.rs:52
DecodeFitsOff(current_tokens) == current_tokens <= config.max_num_batched_tokens
DecodeFitsNever(current_tokens) == FALSE
DecodeFits(current_tokens) == current_tokens < config.max_num_batched_tokens

\* scheduler.rs:70-71
PrefillFitsNoSeqLimit(current_tokens, seq_len, num_running) ==
    current_tokens + seq_len <= config.max_num_batched_tokens
PrefillFitsNoBudget(current_tokens, seq_len, num_running) ==
    num_running < config.max_num_seqs
PrefillFits(current_tokens, seq_len, num_running) ==
    /\ current_tokens + seq_len <= config.max_num_batched_tokens
    /\ num_running < config.max_num_seqs

\* scheduler.rs:58-60: a running group over budget goes back to the front of
\* waiting with status Waiting
PreemptDrop(st, sg) == [st EXCEPT !.seqs[sg] = set_status(@, "Waiting")]
Preempt(st, sg) ==
    [st EXCEPT !.seqs[sg] = set_status(@, "Waiting"),
               !.waiting = <<sg>> \o @]

\* scheduler.rs:45-63: the walk over running. st carries the locals
\* (current_tokens, scheduled, next_running) and the fields it changes;
\* the state after a group is computed once, as v.
RECURSIVE DecodePhase(_, _)
DecodePhase(run, st) ==
    IF run = <<>> THEN st
    ELSE LET sg == Head(run)
             after ==
                 IF is_finished(st.seqs[sg])
                 THEN st
                 ELSE IF DecodeFits(st.current_tokens)
                 THEN [st EXCEPT !.current_tokens = @ + 1,
                                 !.scheduled = Append(@, BatchEntry(sg, st.seqs[sg], FALSE)),
                                 !.running = Append(@, sg)]
                 ELSE Preempt(st, sg)
         IN CHOOSE r \in {DecodePhase(Tail(run), v) : v \in {after}} : TRUE

\* scheduler.rs:67-86: promotion of waiting groups, head-of-line blocking
RECURSIVE PrefillPhase(_)
PrefillPhase(st) ==
    IF st.waiting = <<>> THEN st
    ELSE LET sg == Head(st.waiting)
             seq_len == total_tokens(st.seqs[sg])
         IN IF PrefillFits(st.current_tokens, seq_len, Len(st.running))
            THEN LET started == set_status(st.seqs[sg], "Running")
                     after ==
                         [st EXCEPT !.waiting = Tail(@),
                                    !.seqs[sg] = started,
                                    !.current_tokens = @ + seq_len,
                                    !.scheduled = Append(@, BatchEntry(sg, started, TRUE)),
                                    !.running = Append(@, sg)]
                 IN CHOOSE r \in {PrefillPhase(v) : v \in {after}} : TRUE
            ELSE st

\* scheduler.rs:34-92 Scheduler::step
SchedulerStep(sq, w, r) ==
    CHOOSE after \in
        {PrefillPhase(v) : v \in
            {DecodePhase(r, [current_tokens |-> 0, scheduled |-> <<>>,
                             running |-> <<>>, waiting |-> w, seqs |-> sq])}} : TRUE

SchedulerStepResult == SchedulerStep(seqs, waiting, running)

(* ---- llm_engine.rs ---- *)
\* llm_engine.rs:135-137: the delta is the suffix of the full decode that
\* extends the previous output_text
DeltaWhole(full_text, output_text) == full_text
Delta(full_text, output_text) ==
    SubSeq(full_text, Len(output_text) + 1, Len(full_text))

\* llm_engine.rs:129-132
StopNever(seq, next_token) == seq
Stop(seq, next_token) ==
    IF next_token = EosToken THEN set_status(seq, "Finished") ELSE seq

\* llm_engine.rs:145-149
CloseNever(seq) == seq
CloseIfFinished(seq) ==
    IF is_finished(seq) THEN [seq EXCEPT !.sender = FALSE] ELSE seq

\* llm_engine.rs:124-150: the body of the loop for one batch entry whose
\* group is found in running. st carries seqs and sink.
UpdateSeq(st, request_id, next_token) ==
    LET s1 == Stop(append_token_id(st.seqs[request_id], next_token), next_token)
        full_text == Decode(s1.output_token_ids)
        new_text == Delta(full_text, s1.output_text)
        s2 == [s1 EXCEPT !.output_text = full_text]
        sent == new_text # <<>> /\ s2.sender
    IN [seqs |-> [st.seqs EXCEPT ![request_id] = CloseIfFinished(s2)],
        sink |-> IF sent THEN [st.sink EXCEPT ![request_id] = Append(@, new_text)]
                 ELSE st.sink]

\* llm_engine.rs:124: running_mut().iter_mut().find(..)
Find(queue, request_id) == \E i \in 1..Len(queue) : queue[i] = request_id

InRunning(request_id) == Find(running, request_id)

\* llm_engine.rs:119-152: the loop over the batch b, in batch order, against
\* the running queue run; the state after entry i is computed once, as v
RECURSIVE UpdateBatch(_, _, _, _, _)
UpdateBatch(b, run, i, tokens, st) ==
    IF i > Len(b) THEN st
    ELSE LET after == IF Find(run, b[i].request_id)
                      THEN UpdateSeq(st, b[i].request_id, tokens[i])
                      ELSE st
         IN CHOOSE r \in {UpdateBatch(b, run, i + 1, tokens, v) : v \in {after}} : TRUE

UpdateLoop(i, tokens, st) == UpdateBatch(batch, running, i, tokens, st)

(* ---- state machine ---- *)
Configs ==
    [max_num_batched_tokens : 1..MaxConfig,
     max_num_seqs           : 1..MaxConfig,
     max_model_len          : 1..MaxConfig]

\* Scheduler::new, LLMEngine::new
Init ==
    /\ config \in Configs
    /\ request_counter = 0
    /\ seqs = <<>>
    /\ sink = <<>>
    /\ waiting = <<>>
    /\ running = <<>>
    /\ batch = <<>>
    /\ pc = "idle"
    /\ scheduler_lock = "none"
    /\ cache = {}
    /\ alloc = <<>>
    /\ det = <<>>
    /\ tokenizer_errors = {}
    /\ forward = <<>>
    /\ receiver_dropped = {}
    /\ sampler = <<>>

\* llm_engine.rs:78-93 LLMEngine::add_request (admission task, main.rs:46-52);
\* the key of seqs and sink is the counter value of the request, kept
\* 1-based so that both are sequences
Admit(max_prompt_len) ==
    /\ scheduler_lock = "none"
    /\ \E prompt_len \in 0..max_prompt_len :
         LET id == request_counter + 1 IN
         /\ request_counter' = request_counter + 1
         /\ seqs' = Append(seqs, NewSequence(prompt_len))
         /\ sink' = Append(sink, <<>>)
         /\ waiting' = Append(waiting, id)
    /\ UNCHANGED <<config, running, batch, pc, scheduler_lock, cache, others>>

\* main.rs:47-53: the admission task submits MaxRequests requests
AddRequest ==
    /\ request_counter < MaxRequests
    /\ Admit(MaxPromptLen)

\* llm_engine.rs:96: self.scheduler.lock().await is granted to the step loop
LockForSchedule ==
    /\ pc = "idle"
    /\ scheduler_lock = "none"
    /\ scheduler_lock' = "step"
    /\ pc' = "selecting"
    /\ UNCHANGED <<config, request_counter, seqs, waiting, running, batch, sink,
                   cache, others>>

\* llm_engine.rs:98: drop(scheduler) releases the lock before the forward pass
KeepScheduler == "step"
DropScheduler == "none"

\* llm_engine.rs:97-98: scheduler.step(), unlock
Schedule ==
    /\ pc = "selecting"
    /\ scheduler_lock' = DropScheduler
    /\ LET r == SchedulerStepResult IN
         /\ seqs' = r.seqs
         /\ waiting' = r.waiting
         /\ running' = r.running
         /\ batch' = r.scheduled
    /\ pc' = "scheduled"
    /\ UNCHANGED <<config, request_counter, sink, cache, others>>

\* llm_engine.rs:100-103: empty batch, sleep and return
EmptyBatch ==
    /\ pc = "scheduled"
    /\ batch = <<>>
    /\ pc' = "idle"
    /\ UNCHANGED <<config, request_counter, seqs, waiting, running, batch, sink,
                   scheduler_lock, cache, others>>

\* model_executor.rs:176-178: the executor takes (or creates) the KVCache of
\* the request of each of the first k entries it processes
CacheAfter(k) == cache \cup {batch[i].request_id : i \in 1..k}

\* llm_engine.rs:106 executor.run(&batch) returns the logits
RunModel ==
    /\ pc = "scheduled"
    /\ batch # <<>>
    /\ cache' = CacheAfter(Len(batch))
    /\ pc' = "forward_done"
    /\ UNCHANGED <<config, request_counter, seqs, waiting, running, batch, sink,
                   scheduler_lock, others>>

\* llm_engine.rs:106 executor.run(&batch)? returns an error: step returns
\* Err, the batch is dropped (main.rs:58-60 logs and loops)
RunModelError ==
    /\ pc = "scheduled"
    /\ batch # <<>>
    /\ \E k \in 1..Len(batch) : cache' = CacheAfter(k)
    /\ pc' = "idle"
    /\ batch' = <<>>
    /\ UNCHANGED <<config, request_counter, seqs, waiting, running, sink,
                   scheduler_lock, others>>

\* llm_engine.rs:109-117: the sampler lock, then self.scheduler.lock().await
\* is granted to the step loop for the update
LockForUpdate ==
    /\ pc = "forward_done"
    /\ scheduler_lock = "none"
    /\ scheduler_lock' = "step"
    /\ pc' = "updating"
    /\ UNCHANGED <<config, request_counter, seqs, waiting, running, batch, sink,
                   cache, others>>

\* llm_engine.rs:119-154: sample one token per entry, update the sequences
\* of running, return (the lock guard, the batch and its clones are dropped)
Update ==
    /\ pc = "updating"
    /\ scheduler_lock' = "none"
    /\ \E tokens \in [1..Len(batch) -> Vocab] :
         /\ \A i \in 1..Len(batch) : tokens[i] \in SampleSet(batch[i].seq)
         /\ LET r == UpdateLoop(1, tokens, [seqs |-> seqs, sink |-> sink]) IN
              /\ seqs' = r.seqs
              /\ sink' = r.sink
    /\ batch' = <<>>
    /\ pc' = "idle"
    /\ UNCHANGED <<config, request_counter, waiting, running, cache, others>>

Next ==
    \/ AddRequest
    \/ LockForSchedule
    \/ Schedule
    \/ EmptyBatch
    \/ RunModel
    \/ RunModelError
    \/ LockForUpdate
    \/ Update

Spec == Init /\ [][Next]_vars

\* the step loop of main.rs:55-63 never stops calling step(); the forward
\* pass does not fail forever
FairSpec ==
    /\ Spec
    /\ WF_vars(LockForSchedule)
    /\ WF_vars(Schedule)
    /\ WF_vars(EmptyBatch)
    /\ SF_vars(RunModel)
    /\ WF_vars(LockForUpdate)
    /\ WF_vars(Update)

(* ---- vocabulary of the properties ---- *)
Ids == DOMAIN seqs

BatchIds(b) == {b[i].request_id : i \in 1..Len(b)}

RECURSIVE Charged(_)
\* token positions charged for a batch: 1 per decode entry, the full
\* token count of the group per prefill entry
Charged(b) ==
    IF b = <<>> THEN 0
    ELSE (IF Head(b).prefill THEN total_tokens(Head(b).seq) ELSE 1) + Charged(Tail(b))

NumPrefill(b) == Cardinality({i \in 1..Len(b) : b[i].prefill})
NumDecode(b) == Cardinality({i \in 1..Len(b) : ~b[i].prefill})

RECURSIVE Concat(_)
Concat(chunks) ==
    IF chunks = <<>> THEN <<>> ELSE Head(chunks) \o Concat(Tail(chunks))

\* the channel of a request is closed when every sender is dropped: the one
\* of the sequence and the clones held by a batch in flight
SinkClosed(id) ==
    /\ ~seqs[id].sender
    /\ \A i \in 1..Len(batch) : batch[i].request_id = id => ~batch[i].seq.sender

ScheduleTaken == pc = "selecting" /\ pc' = "scheduled"
TickEnds == pc # "idle" /\ pc' = "idle"
StepOk == pc = "updating" /\ pc' = "idle"

(* ---- C1 ---- *)
\* C1: the token positions charged for the batch of a scheduler step (1 per
\* decode group, the full token count per prefill group) never exceed
\* max_num_batched_tokens.
C1_TokenBudget == Charged(batch) <= config.max_num_batched_tokens

\* a batch mixing a decode and a non-empty prefill that uses the whole budget
C1_Witness ==
    /\ pc = "scheduled"
    /\ \E i, j \in 1..Len(batch) :
         /\ ~batch[i].prefill
         /\ batch[j].prefill /\ total_tokens(batch[j].seq) >= 1
    /\ Charged(batch) = config.max_num_batched_tokens

(* ---- C2 ---- *)
\* C2: running never holds more than max_num_seqs groups, and a scheduler
\* step whose decode phase leaves max_num_seqs groups in running admits no
\* waiting group.
C2_SeqLimit ==
    /\ [](Len(running) <= config.max_num_seqs)
    /\ [][(ScheduleTaken /\ NumDecode(batch') = config.max_num_seqs)
            => (NumPrefill(batch') = 0 /\ waiting' = waiting)]_vars

\* running is full, a group waits, and the token budget would admit it
C2_Witness ==
    /\ pc = "scheduled"
    /\ NumDecode(batch) = config.max_num_seqs
    /\ Len(running) = config.max_num_seqs
    /\ waiting # <<>>
    /\ total_tokens(seqs[Head(waiting)]) >= 1
    /\ Charged(batch) + total_tokens(seqs[Head(waiting)])
         <= config.max_num_batched_tokens

(* ---- C3 ---- *)
\* C3: no sequence admitted with a prompt shorter than max_model_len ever
\* grows beyond max_model_len (it is Finished when it reaches it).
C3_MaxModelLen ==
    \A id \in Ids :
        seqs[id].prompt_len < config.max_model_len
            => get_len(seqs[id]) <= config.max_model_len

(* ---- C4 ---- *)
\* C4: add_request with a prompt longer than max_model_len leaves waiting and
\* running unchanged; an add_request that enqueues a group was given a prompt
\* of at most max_model_len tokens.
C4_PromptTooLong ==
    [][(request_counter' # request_counter /\ <<waiting, running>>' # <<waiting, running>>)
         => seqs'[waiting'[Len(waiting')]].prompt_len <= config.max_model_len]_vars

(* ---- C5 ---- *)
\* C5: a scheduler step never leaves at the head of waiting a group whose
\* prompt alone exceeds max_num_batched_tokens: it fails it and removes it.
C5_HeadTooLongFails ==
    [][ScheduleTaken
         => (waiting' = <<>>
             \/ seqs'[Head(waiting')].prompt_len <= config.max_num_batched_tokens)]_vars

(* ---- C6 ---- *)
\* C6: with the step loop ticking, a waiting request whose length stays within
\* max_model_len reaches Running once the running requests have completed.
C6_StarvationFree ==
    \A id \in 1..MaxRequests :
        (/\ id \in Ids
         /\ seqs[id].status = "Waiting"
         /\ seqs[id].prompt_len <= config.max_model_len
         /\ \A i \in 1..Len(running) : is_finished(seqs[running[i]]))
        ~> (id \in Ids /\ seqs[id].status = "Running")

TextTokenCount(ids) ==
    Cardinality({i \in 1..Len(ids) : TokenText(ids[i]) # <<>>})

Occurrences(queue, id) == Cardinality({i \in 1..Len(queue) : queue[i] = id})

\* C17: every admitted request that is not Finished is exactly once in
\* waiting or running, never in both, and no request is twice in a queue.
C17_QueuesPartition ==
    \A id \in Ids :
        /\ Occurrences(waiting, id) <= 1
        /\ Occurrences(running, id) <= 1
        /\ ~is_finished(seqs[id])
             => Occurrences(waiting, id) + Occurrences(running, id) = 1

\* after a scheduler step: a group moved back from running waits while
\* another one runs
C17_Witness ==
    /\ pc = "scheduled"
    /\ running # <<>>
    /\ \E i \in 1..Len(waiting) : seqs[waiting[i]].output_token_ids # <<>>

(* ---- C19 ---- *)
\* C19: the scheduler step that follows the finish of a group removes it from
\* running and leaves no KV cache entry for its request.
C19_FinishedReleased ==
    [][ScheduleTaken
         => \A id \in Ids :
              is_finished(seqs[id])
                  => (/\ \A i \in 1..Len(running') : running'[i] # id
                      /\ id \notin cache')]_vars

(* ---- C20 ---- *)
\* C20: the step loop holds the scheduler lock only while it selects the batch
\* and while it updates the queues after the forward pass; during the forward
\* pass the lock is free and an add_request can take it and enqueue.
C20_LockFreeDuringForward ==
    /\ scheduler_lock = "step" <=> pc \in {"selecting", "updating"}
    /\ (pc \in {"scheduled", "forward_done"} /\ request_counter < MaxRequests)
         => ENABLED AddRequest

\* a request with no token and room in running waits while the forward pass
\* of a batch runs: it was enqueued after the batch was selected
C20_Witness ==
    /\ pc = "scheduled"
    /\ batch # <<>>
    /\ Len(waiting) = 1
    /\ total_tokens(seqs[waiting[1]]) = 0
    /\ waiting[1] \notin cache
    /\ Len(running) < config.max_num_seqs

(* ---- block_manager.rs: BlockAllocator and BlockTable ---- *)
MaxBlocks == 3            \* largest num_blocks given to BlockAllocator::new

\* usize values passed as block ids; MaxBlocks is never handed out by new
BlockIds == 0..MaxBlocks
SeqIds == {"a", "b"}
\* the Vec<usize> values given to set_blocks
BlockVectors == {<<>>, <<0>>, <<1>>}

\* block_manager.rs:9-14 BlockAllocator::new: free_blocks = (0..num_blocks)
BlockAllocatorNew(num_blocks) == [i \in 1..num_blocks |-> i - 1]

InPool(free_blocks, block_id) ==
    \E i \in 1..Len(free_blocks) : free_blocks[i] = block_id

\* block_manager.rs:16-18 allocate: Vec::pop; an Option is a sequence of at
\* most one element
allocateFifo(free_blocks) ==
    IF free_blocks = <<>>
    THEN [ret |-> <<>>, free_blocks |-> free_blocks]
    ELSE [ret |-> <<Head(free_blocks)>>, free_blocks |-> Tail(free_blocks)]
allocate(free_blocks) ==
    IF free_blocks = <<>>
    THEN [ret |-> <<>>, free_blocks |-> free_blocks]
    ELSE [ret |-> <<free_blocks[Len(free_blocks)]>>,
          free_blocks |-> SubSeq(free_blocks, 1, Len(free_blocks) - 1)]

\* block_manager.rs:20-24 free: push unless contained
freeAlways(free_blocks, block_id) == Append(free_blocks, block_id)
free(free_blocks, block_id) ==
    IF ~InPool(free_blocks, block_id)
    THEN Append(free_blocks, block_id)
    ELSE free_blocks

\* block_manager.rs:26-28 can_allocate
can_allocateStrict(free_blocks, num_blocks) == Len(free_blocks) > num_blocks
can_allocate(free_blocks, num_blocks) == Len(free_blocks) >= num_blocks

\* block_manager.rs:42-44 set_blocks: HashMap::insert
set_blocks(table, seq_id, blocks) ==
    [s \in DOMAIN table \cup {seq_id} |->
        IF s = seq_id THEN blocks ELSE table[s]]

\* the engine of Spec, constructed and left alone
EngineAtRest ==
    /\ config = [max_num_batched_tokens |-> 1, max_num_seqs |-> 1,
                 max_model_len |-> 1]
    /\ request_counter = 0
    /\ seqs = <<>>
    /\ sink = <<>>
    /\ waiting = <<>>
    /\ running = <<>>
    /\ batch = <<>>
    /\ pc = "idle"
    /\ scheduler_lock = "none"
    /\ cache = {}

engine == <<config, request_counter, seqs, waiting, running, batch, sink, pc,
            scheduler_lock, cache>>

\* alloc.free_blocks and alloc.table are the fields of the two structs;
\* the other fields record history: total is the argument of new, owned the
\* ids handed out and not freed since, freed the ids pushed by free that are
\* still in the pool (oldest first), last the latest call
AllocInit ==
    /\ EngineAtRest
    /\ det = <<>>
    /\ tokenizer_errors = {}
    /\ forward = <<>>
    /\ receiver_dropped = {}
    /\ sampler = <<>>
    /\ \E num_blocks \in 1..MaxBlocks :
         alloc = [free_blocks |-> BlockAllocatorNew(num_blocks),
                  table       |-> <<>>,
                  total       |-> num_blocks,
                  owned       |-> {},
                  freed       |-> <<>>,
                  last        |-> [op |-> "new", arg |-> num_blocks,
                                   ret |-> <<>>, pool_before |-> 0]]

Without(s, x) == SelectSeq(s, LAMBDA y : y # x)

Allocate ==
    LET r == allocate(alloc.free_blocks) IN
    /\ alloc' = [alloc EXCEPT
                   !.free_blocks = r.free_blocks,
                   !.owned = @ \cup {r.ret[i] : i \in 1..Len(r.ret)},
                   !.freed = IF r.ret = <<>> THEN @ ELSE Without(@, r.ret[1]),
                   !.last = [op |-> "allocate", arg |-> 0, ret |-> r.ret,
                             pool_before |-> Len(alloc.free_blocks)]]
    /\ UNCHANGED <<engine, det, tokenizer_errors, sampler, forward, receiver_dropped>>

Free ==
    \E block_id \in BlockIds :
        /\ alloc' = [alloc EXCEPT
                       !.free_blocks = free(@, block_id),
                       !.owned = @ \ {block_id},
                       !.freed = IF InPool(alloc.free_blocks, block_id)
                                 THEN @ ELSE Append(@, block_id),
                       !.last = [op |-> "free", arg |-> block_id, ret |-> <<>>,
                                 pool_before |-> Len(alloc.free_blocks)]]
        /\ UNCHANGED <<engine, det, tokenizer_errors, sampler, forward, receiver_dropped>>

CanAllocate ==
    \E num_blocks \in 0..(MaxBlocks + 1) :
        /\ alloc' = [alloc EXCEPT
                       !.last = [op |-> "can_allocate", arg |-> num_blocks,
                                 ret |-> <<can_allocate(alloc.free_blocks,
                                                        num_blocks)>>,
                                 pool_before |-> Len(alloc.free_blocks)]]
        /\ UNCHANGED <<engine, det, tokenizer_errors, sampler, forward, receiver_dropped>>

SetBlocks ==
    \E seq_id \in SeqIds, blocks \in BlockVectors :
        /\ alloc' = [alloc EXCEPT
                       !.table = set_blocks(@, seq_id, blocks),
                       !.last = [op |-> "set_blocks", arg |-> 0, ret |-> <<>>,
                                 pool_before |-> Len(alloc.free_blocks)]]
        /\ UNCHANGED <<engine, det, tokenizer_errors, sampler, forward, receiver_dropped>>

AllocNext ==
    \/ Allocate
    \/ Free
    \/ CanAllocate
    \/ SetBlocks

AllocSpec == AllocInit /\ [][AllocNext]_vars

(* ---- claims about the block allocator ---- *)
\* n calls of allocate in a row all return a block
RECURSIVE AllocateSucceeds(_, _)
AllocateSucceeds(free_blocks, n) ==
    IF n = 0
    THEN TRUE
    ELSE LET r == allocate(free_blocks) IN
         /\ r.ret # <<>>
         /\ AllocateSucceeds(r.free_blocks, n - 1)

\* C12: after any sequence of allocate and free calls, the number of block
\* ids handed out and not yet freed plus the size of the free pool equals the
\* block count given to new.
C12_Conservation ==
    Cardinality(alloc.owned) + Len(alloc.free_blocks) = alloc.total

\* C13: no block id is in the block table of two sequences, and every block
\* id in the block table is allocated, i.e. absent from the free pool.
C13_TableExclusive ==
    LET table == alloc.table IN
    /\ \A s1, s2 \in DOMAIN table :
         s1 # s2 =>
            \A i \in 1..Len(table[s1]), j \in 1..Len(table[s2]) :
                table[s1][i] # table[s2][j]
    /\ \A s1 \in DOMAIN table :
         \A i \in 1..Len(table[s1]) :
            ~InPool(alloc.free_blocks, table[s1][i])

\* C14: a free of a block that is already in the free pool leaves the pool
\* unchanged, and after any free of a block a second free of the same block
\* changes nothing.
C14_FreeIdempotent ==
    [][alloc'.last.op = "free"
         => LET block_id == alloc'.last.arg IN
            /\ InPool(alloc.free_blocks, block_id)
                 => alloc'.free_blocks = alloc.free_blocks
            /\ free(alloc'.free_blocks, block_id) = alloc'.free_blocks]_vars

\* a block was pushed by free and the latest call freed it again
C14_Witness ==
    /\ alloc.last.op = "free"
    /\ Len(alloc.free_blocks) = alloc.last.pool_before
    /\ alloc.freed # <<>>
    /\ alloc.freed[Len(alloc.freed)] = alloc.last.arg
    /\ alloc.last.arg < alloc.total

\* C15: allocate returns none exactly when the free pool is empty, and when
\* blocks returned by free are still in the pool it returns the one returned
\* most recently.
C15_Lifo ==
    [][alloc'.last.op = "allocate"
         => /\ alloc'.last.ret = <<>> <=> alloc.free_blocks = <<>>
            /\ alloc.freed # <<>>
                 => alloc'.last.ret = <<alloc.freed[Len(alloc.freed)]>>]_vars

\* allocate returned the latest freed block while an older freed one stays
C15_Witness ==
    /\ alloc.last.op = "allocate"
    /\ alloc.last.ret # <<>>
    /\ alloc.freed # <<>>
    /\ alloc.last.pool_before < alloc.total

\* C16: can_allocate(n) is true iff n allocations in a row succeed, i.e. the
\* pool holds at least n blocks; a successful allocate lowers the pool size
\* by one and a free of an outstanding block raises it by one.
C16_CanAllocate ==
    [][/\ alloc'.last.op = "can_allocate"
            => (alloc'.last.ret = <<TRUE>>
                  <=> AllocateSucceeds(alloc.free_blocks, alloc'.last.arg))
       /\ (alloc'.last.op = "allocate" /\ alloc'.last.ret # <<>>)
            => Len(alloc'.free_blocks) = Len(alloc.free_blocks) - 1
       /\ (alloc'.last.op = "free" /\ alloc'.last.arg \in alloc.owned)
            => Len(alloc'.free_blocks) = Len(alloc.free_blocks) + 1]_vars

\* block_manager.rs:51-60 scaled down: some blocks are out, one has come
\* back, and can_allocate of the whole pool answers true
C16_Witness ==
    /\ alloc.last.op = "can_allocate"
    /\ alloc.last.ret = <<TRUE>>
    /\ alloc.last.arg = Len(alloc.free_blocks)
    /\ alloc.owned # {}
    /\ alloc.freed # <<>>
    /\ alloc.freed[Len(alloc.freed)] < alloc.total

(* ---- the engine under a burst of short prompts ---- *)
\* one request more than the token budget and the sequence limit of Spec
\* allow to run side by side, so that one step can preempt two groups
BurstRequests == MaxRequests + 1
BurstPromptLen == 1

BurstInit ==
    /\ config \in [max_num_batched_tokens : {1},
                   max_num_seqs           : {BurstRequests},
                   max_model_len          : 1..MaxConfig]
    /\ request_counter = 0
    /\ seqs = <<>>
    /\ sink = <<>>
    /\ waiting = <<>>
    /\ running = <<>>
    /\ batch = <<>>
    /\ pc = "idle"
    /\ scheduler_lock = "none"
    /\ cache = {}
    /\ alloc = <<>>
    /\ det = <<>>
    /\ tokenizer_errors = {}
    /\ forward = <<>>
    /\ receiver_dropped = {}
    /\ sampler = <<>>

AddRequestBurst ==
    /\ request_counter < BurstRequests
    /\ Admit(BurstPromptLen)

BurstNext ==
    \/ AddRequestBurst
    \/ LockForSchedule
    \/ Schedule
    \/ EmptyBatch
    \/ RunModel
    \/ RunModelError
    \/ LockForUpdate
    \/ Update

BurstSpec == BurstInit /\ [][BurstNext]_vars

\* C18: the waiting queue keeps arrival order, preempted groups included: a
\* scheduler step never admits a group to running while a group that arrived
\* earlier (a smaller request id) is left waiting.
C18_ArrivalOrder ==
    [][ScheduleTaken
         => \A i \in 1..Len(running'), j \in 1..Len(waiting') :
               ~InRunning(running'[i]) => running'[i] < waiting'[j]]_vars

(* ---- two runs of the engine on the same admissions ---- *)
Runs == 1..2

\* llm_engine.rs:44 Sampler::new(42): every engine seeds its sampler alike
SamplerSeedPerRun(run) == 42 + run
SamplerSeed(run) == 42

\* sampling.rs:58 rng.gen_range(0.0..1.0), in hundredths: the value of a
\* seeded generator is a function of the seed and of the number of draws
\* taken before (StdRng is stood for by a small congruential formula)
NextDraw(seed, draws) == ((seed + draws) * 37) % 100

\* model_executor.rs:168-208 run, sampling.rs:49-55: a deterministic executor
\* gives logits, hence a probability of the EOS token (id 0, first in the
\* cumulative sum), that is a function of the tokens of the sequence
ProbEos(seq) ==
    IF Len(seq.output_token_ids) + 1 >= MaxOutputLen THEN 100 ELSE 50

\* sampling.rs:57-66: the first token whose cumulative probability reaches
\* the draw
sample(prob_eos, r_val) ==
    IF r_val <= prob_eos THEN EosToken ELSE CHOOSE t \in TextTokens : TRUE

\* llm_engine.rs:119-121: one draw per batch entry, in batch order
SampleBatch(b, seed, draws) ==
    [i \in 1..Len(b) |->
        sample(ProbEos(b[i].seq), NextDraw(seed, draws + i))]

NewEngine ==
    [request_counter |-> 0, seqs |-> <<>>, sink |-> <<>>, waiting |-> <<>>,
     running |-> <<>>, draws |-> 0, arrived |-> <<>>]

\* llm_engine.rs:78-93 add_request on the engine e; arrived records, per
\* request, how many draws the sampler had made when the request came in
EngineAdd(e, prompt_len) ==
    [e EXCEPT !.request_counter = @ + 1,
              !.arrived = Append(@, e.draws),
              !.seqs = Append(@, NewSequence(prompt_len)),
              !.sink = Append(@, <<>>),
              !.waiting = Append(@, e.request_counter + 1)]

\* llm_engine.rs:95-155 step on the engine e of the given run, the forward
\* pass succeeding. An add_request that lands during the forward pass only
\* appends to waiting, which the update does not read, so it has the effect
\* of one that lands after the step.
EngineStep(e, run) ==
    LET s == SchedulerStep(e.seqs, e.waiting, e.running)
        tokens == SampleBatch(s.scheduled, SamplerSeed(run), e.draws)
        u == UpdateBatch(s.scheduled, s.running, 1, tokens,
                         [seqs |-> s.seqs, sink |-> e.sink])
    IN [e EXCEPT !.seqs = u.seqs,
                 !.sink = u.sink,
                 !.waiting = s.waiting,
                 !.running = s.running,
                 !.draws = @ + Len(s.scheduled)]

\* det.prompts is the ordered list of admissions both runs receive;
\* det.aligned records that at every step so far the two runs had received
\* the same number of them
DetInit ==
    /\ config \in {c \in Configs : c.max_model_len = MaxConfig}
    /\ request_counter = 0
    /\ seqs = <<>>
    /\ sink = <<>>
    /\ waiting = <<>>
    /\ running = <<>>
    /\ batch = <<>>
    /\ pc = "idle"
    /\ scheduler_lock = "none"
    /\ cache = {}
    /\ alloc = <<>>
    /\ tokenizer_errors = {}
    /\ forward = <<>>
    /\ receiver_dropped = {}
    /\ sampler = <<>>
    /\ \E prompts \in [1..MaxRequests -> 0..MaxPromptLen] :
         det = [prompts |-> prompts,
                aligned |-> TRUE,
                engines |-> [run \in Runs |-> NewEngine]]

\* main.rs:47-53: the admission task of one run submits its next request
DetAdd ==
    \E run \in Runs :
        LET e == det.engines[run] IN
        /\ e.request_counter < Len(det.prompts)
        /\ det' = [det EXCEPT
                     !.engines[run] =
                         EngineAdd(e, det.prompts[e.request_counter + 1])]
        /\ UNCHANGED <<engine, alloc, tokenizer_errors, sampler, forward, receiver_dropped>>

\* main.rs:56-63: each run takes its next step; the two runs are compared
\* step by step
DetStep ==
    /\ det' = [det EXCEPT
                 !.engines = [run \in Runs |-> EngineStep(det.engines[run], run)],
                 !.aligned = @ /\ det.engines[1].request_counter
                                    = det.engines[2].request_counter]
    /\ UNCHANGED <<engine, alloc, tokenizer_errors, sampler, forward, receiver_dropped>>

DetNext ==
    \/ DetAdd
    \/ DetStep

DetSpec == DetInit /\ [][DetNext]_vars

\* the request is finished in both runs
FinishedInBoth(id) ==
    \A run \in Runs :
        /\ id <= det.engines[run].request_counter
        /\ is_finished(det.engines[run].seqs[id])

SameOutput(id) ==
    det.engines[1].seqs[id].output_token_ids
        = det.engines[2].seqs[id].output_token_ids

ExecutorFails == pc = "scheduled" /\ batch # <<>> /\ pc' = "idle"

\* C21: when the forward pass fails for a batch, every sequence of that batch
\* is terminated and its sink is closed.
C21_FailedBatchTerminated ==
    [][ExecutorFails
         => \A id \in BatchIds(batch) :
               /\ is_finished(seqs'[id])
               /\ ~seqs'[id].sender]_vars

(* ---- the engine with a tokenizer that can fail ---- *)
\* llm_engine.rs:135: tokenizer.decode(..).unwrap_or_default()
DecodeOrDefault(ids, ok) == IF ok THEN Decode(ids) ELSE <<>>

\* llm_engine.rs:136: full_text[seq.output_text.len()..] panics when the
\* start index lies beyond the end of full_text
SlicePanics(full_text, output_text) == Len(output_text) > Len(full_text)

\* llm_engine.rs:124-150 for one batch entry, decode succeeding or not. st
\* carries seqs, sink, the requests whose decode failed and whether the
\* task has panicked.
UpdateSeqOrPanic(st, request_id, next_token, ok) ==
    LET s1 == Stop(append_token_id(st.seqs[request_id], next_token), next_token)
        full_text == DecodeOrDefault(s1.output_token_ids, ok)
        new_text == Delta(full_text, s1.output_text)
        s2 == [s1 EXCEPT !.output_text = full_text]
        sent == new_text # <<>> /\ s2.sender
        errors == IF ok THEN st.errors ELSE st.errors \cup {request_id}
    IN IF SlicePanics(full_text, s1.output_text)
       THEN [st EXCEPT !.seqs[request_id] = s1,
                       !.errors = errors,
                       !.panicked = TRUE]
       ELSE [st EXCEPT !.seqs[request_id] = CloseIfFinished(s2),
                       !.sink[request_id] = IF sent THEN Append(@, new_text) ELSE @,
                       !.errors = errors]

\* llm_engine.rs:119-152: the loop over the batch; a panic ends it
RECURSIVE UpdateBatchOrPanic(_, _, _, _, _, _)
UpdateBatchOrPanic(b, run, i, tokens, oks, st) ==
    IF i > Len(b) \/ st.panicked THEN st
    ELSE UpdateBatchOrPanic(b, run, i + 1, tokens, oks,
            IF Find(run, b[i].request_id)
            THEN UpdateSeqOrPanic(st, b[i].request_id, tokens[i], oks[i])
            ELSE st)

\* llm_engine.rs:79-83: the counter is taken, tokenizer.encode fails and
\* add_request returns Err (main.rs:49-51 logs it); the request and its
\* response_tx are dropped, no Sequence is built. The record appended to
\* seqs only keeps seqs and sink indexed by the counter.
AddRequestEncodeError ==
    /\ request_counter < MaxRequests
    /\ request_counter' = request_counter + 1
    /\ seqs' = Append(seqs, [NewSequence(0) EXCEPT !.status = "Dropped",
                                                   !.sender = FALSE])
    /\ sink' = Append(sink, <<>>)
    /\ tokenizer_errors' = tokenizer_errors \cup {request_counter + 1}
    /\ UNCHANGED <<config, waiting, running, batch, pc, scheduler_lock, cache,
                   alloc, det, sampler, forward, receiver_dropped>>

\* llm_engine.rs:119-154 with decode failures: the step returns Ok, or the
\* step task of main.rs:56-63 panics and is gone (the guards and the batch
\* are dropped while unwinding)
UpdateOrPanic ==
    /\ pc = "updating"
    /\ scheduler_lock' = "none"
    /\ \E tokens \in [1..Len(batch) -> Vocab], oks \in [1..Len(batch) -> BOOLEAN] :
         /\ \A i \in 1..Len(batch) : tokens[i] \in SampleSet(batch[i].seq)
         /\ LET r == UpdateBatchOrPanic(batch, running, 1, tokens, oks,
                        [seqs |-> seqs, sink |-> sink,
                         errors |-> tokenizer_errors, panicked |-> FALSE])
            IN /\ seqs' = r.seqs
               /\ sink' = r.sink
               /\ tokenizer_errors' = r.errors
               /\ pc' = IF r.panicked THEN "panicked" ELSE "idle"
    /\ batch' = <<>>
    /\ UNCHANGED <<config, request_counter, waiting, running, cache, alloc, det,
                   sampler, forward, receiver_dropped>>

FaultNext ==
    \/ AddRequest
    \/ AddRequestEncodeError
    \/ LockForSchedule
    \/ Schedule
    \/ EmptyBatch
    \/ RunModel
    \/ RunModelError
    \/ LockForUpdate
    \/ UpdateOrPanic

FaultSpec == Init /\ [][FaultNext]_vars

\* the final delta of a request terminated by a tokenizer failure
ErrorDelta == <<"</error/>">>

\* C22: a request whose tokenization failed (encode at admission or decode
\* in a step) has the delta `</error/>` as the last one on its sink, and its
\* sink is closed.
C22_TokenizerErrorDelta ==
    \A id \in tokenizer_errors :
        /\ sink[id] # <<>>
        /\ sink[id][Len(sink[id])] = ErrorDelta
        /\ SinkClosed(id)

\* C23: a decode failure for one sequence of a batch leaves the step loop
\* running, and every other sequence of the batch gets its token in that
\* step.
C23_OnlyThatRequest ==
    [][(pc = "updating" /\ pc' # "updating")
         => /\ pc' = "idle"
            /\ \A id \in BatchIds(batch) :
                 (InRunning(id) /\ id \notin tokenizer_errors')
                    => Len(seqs'[id].output_token_ids)
                         = Len(seqs[id].output_token_ids) + 1]_vars

(* ---- sampling.rs: a Sampler on its own ---- *)
MaxLogit == 1             \* logits are 0..MaxLogit
MaxTopK == 2              \* largest top_k given in the params
MaxDraws == 2             \* draws taken from one rng

\* length of a logits vector: the tokens of Vocab and one more
VocabSize == Cardinality(Vocab) + 1

\* logits[i] is the logit of token i - 1
LogitVectors == [1..VocabSize -> 0..MaxLogit]

\* temperature 0 stands for a temperature below 1e-5, 1 for one above;
\* top_p is in hundredths
AllParams ==
    [temperature : {0, 1}, top_k : 0..MaxTopK, top_p : {50, 100}]

\* sampling.rs:42-46: enumerate().max_by(total_cmp): of several equal
\* maxima, max_by keeps the last
RECURSIVE MaxBy(_, _, _)
MaxBy(logits, i, best) ==
    IF i > Len(logits) THEN best
    ELSE MaxBy(logits, i + 1, IF logits[i] >= logits[best] THEN i ELSE best)

\* sampling.rs:49-55: softmax of logits / temperature; the probabilities are
\* kept as integer weights over their sum (powers of 2 stand for exp)
Weight(logit, temperature) == 2 ^ (logit \div temperature)

RECURSIVE SumWeights(_, _, _)
SumWeights(logits, temperature, i) ==
    IF i = 0 THEN 0
    ELSE SumWeights(logits, temperature, i - 1) + Weight(logits[i], temperature)

\* sampling.rs:58-66: the first index whose cumulative probability reaches
\* r_val (hundredths), else the last index
RECURSIVE Walk(_, _, _, _, _, _)
Walk(logits, temperature, r_val, exp_sum, i, cdf) ==
    IF i > Len(logits) THEN Len(logits)
    ELSE LET next_cdf == cdf + Weight(logits[i], temperature) IN
         IF r_val * exp_sum <= 100 * next_cdf
         THEN i
         ELSE Walk(logits, temperature, r_val, exp_sum, i + 1, next_cdf)

InverseCdf(logits, temperature, r_val) ==
    Walk(logits, temperature, r_val,
         SumWeights(logits, temperature, Len(logits)), 1, 0)

\* sampling.rs:34-67 Sampler::sample: the token and the rng afterwards
SamplerSampleDrawFirst(rng, logits, params) ==
    LET after == [rng EXCEPT !.draws = @ + 1] IN
    IF params.temperature = 0
    THEN [ret |-> MaxBy(logits, 1, 1) - 1, rng |-> after]
    ELSE [ret |-> InverseCdf(logits, params.temperature,
                             NextDraw(rng.seed, after.draws)) - 1,
          rng |-> after]
SamplerSample(rng, logits, params) ==
    IF params.temperature = 0
    THEN [ret |-> MaxBy(logits, 1, 1) - 1, rng |-> rng]
    ELSE [ret |-> InverseCdf(logits, params.temperature,
                             NextDraw(rng.seed, rng.draws + 1)) - 1,
          rng |-> [rng EXCEPT !.draws = @ + 1]]

\* sampling.rs:28-32 Sampler::new(seed); last is the latest call (here none
\* yet) and repeated tells that it was a greedy call on the logits of the
\* greedy call before it
SamplerInit ==
    /\ EngineAtRest
    /\ alloc = <<>>
    /\ det = <<>>
    /\ tokenizer_errors = {}
    /\ forward = <<>>
    /\ receiver_dropped = {}
    /\ \E seed \in {SamplerSeed(1)} :
         sampler = [rng      |-> [seed |-> seed, draws |-> 0],
                    last     |-> [logits |-> <<>>,
                                  params |-> [temperature |-> 1, top_k |-> 0,
                                              top_p |-> 100],
                                  ret |-> 0],
                    calls    |-> 0,
                    repeated |-> FALSE]

Sample ==
    \E logits \in LogitVectors, params \in AllParams :
        LET r == SamplerSample(sampler.rng, logits, params) IN
        /\ r.rng.draws <= MaxDraws
        /\ sampler' = [rng      |-> r.rng,
                       last     |-> [logits |-> logits, params |-> params,
                                     ret |-> r.ret],
                       calls    |-> IF sampler.calls = 0 THEN 1 ELSE 2,
                       repeated |-> /\ params.temperature = 0
                                    /\ sampler.last.params.temperature = 0
                                    /\ sampler.last.logits = logits]
        /\ UNCHANGED <<engine, alloc, det, tokenizer_errors, forward, receiver_dropped>>

SamplerNext == Sample

SamplerSpec == SamplerInit /\ [][SamplerNext]_vars

(* ---- claims about the sampler ---- *)
\* the latest call was greedy (temperature below 1e-5)
GreedyCall == sampler.calls >= 1 /\ sampler.last.params.temperature = 0
StochasticCall == sampler.calls >= 1 /\ sampler.last.params.temperature >= 1

\* indices (from 1) of the logits larger than the one of the token
Above(logits, token) ==
    {j \in 1..Len(logits) : logits[j] > logits[token + 1]}

\* C24: with temperature < 1e-5 the sampler returns an index of the maximum
\* logit, the smallest one when several share the maximum.
C24_GreedySmallestIndex ==
    GreedyCall
        => LET logits == sampler.last.logits
               token == sampler.last.ret
           IN /\ Above(logits, token) = {}
              /\ \A j \in 1..Len(logits) :
                    logits[j] = logits[token + 1] => token + 1 <= j

\* probability mass, as a weight, of the tokens more probable than token
RECURSIVE WeightOf(_, _, _)
WeightOf(logits, temperature, indices) ==
    IF indices = {} THEN 0
    ELSE LET j == CHOOSE j \in indices : TRUE IN
         Weight(logits[j], temperature)
            + WeightOf(logits, temperature, indices \ {j})

\* C25: with temperature >= 1e-5 and top_k > 0 the token returned is one of
\* the k most probable tokens, and with top_p < 1 the tokens more probable
\* than it have a cumulative probability below top_p.
C25_TopKTopP ==
    (StochasticCall /\ sampler.last.params.top_k > 0)
        => LET logits == sampler.last.logits
               params == sampler.last.params
               token == sampler.last.ret
           IN /\ Cardinality(Above(logits, token)) < params.top_k
              /\ params.top_p < 100
                   => 100 * WeightOf(logits, params.temperature,
                                     Above(logits, token))
                        < params.top_p * SumWeights(logits, params.temperature,
                                                    Len(logits))

\* C26: a sample with temperature 0 leaves the random stream where it was
\* (so that later stochastic samples are unaffected), and it returns the
\* token the greedy sample before it returned on the same logits.
C26_GreedyIdempotent ==
    [][sampler'.last.params.temperature = 0
         => /\ sampler'.rng = sampler.rng
            /\ sampler'.repeated => sampler'.last.ret = sampler.last.ret]_vars

\* a greedy sample repeated on logits with a tie, after a stochastic sample
C26_Witness ==
    /\ GreedyCall
    /\ sampler.repeated
    /\ sampler.rng.draws >= 1
    /\ sampler.last.logits[1] = sampler.last.logits[VocabSize]

(* ---- config.rs and the construction of the engine ---- *)
MaxField == 1             \* largest value of a numeric field of a Config

\* config.rs:18-33 Config::default; gpu_memory_utilization in hundredths,
\* draft_model an Option (a sequence of at most one element)
DefaultConfig ==
    [max_num_batched_tokens |-> 4096, max_num_seqs |-> 256,
     max_model_len |-> 2048, gpu_memory_utilization |-> 90,
     tensor_parallel_size |-> 1, kvcache_block_size |-> 16,
     speculative_decoding |-> FALSE, draft_model |-> <<>>,
     num_speculative_tokens |-> 5]

\* config.rs:5-16: the values a Config can be given (usize fields start at 0)
CandidateConfigs ==
    [max_num_batched_tokens : 0..MaxField, max_num_seqs : 0..MaxField,
     max_model_len : 0..MaxField, gpu_memory_utilization : {-1, 0, 100, 150},
     tensor_parallel_size : 0..MaxField, kvcache_block_size : 0..MaxField,
     speculative_decoding : BOOLEAN, draft_model : {<<>>, <<"dummy">>},
     num_speculative_tokens : 0..MaxField]
        \cup {DefaultConfig}

\* config.rs:58-60
SpecTokensUnchecked(c) == "Ok"
SpecTokensChecked(c) ==
    IF c.num_speculative_tokens = 0
    THEN "num_speculative_tokens must be > 0"
    ELSE "Ok"

\* config.rs:36-62 Config::validate: "Ok" or the message of the first check
\* that fails
validate(c) ==
    IF c.max_num_batched_tokens = 0 THEN "max_num_batched_tokens must be > 0"
    ELSE IF c.max_num_seqs = 0 THEN "max_num_seqs must be > 0"
    ELSE IF c.max_model_len = 0 THEN "max_model_len must be > 0"
    ELSE IF ~(0 <= c.gpu_memory_utilization /\ c.gpu_memory_utilization <= 100)
    THEN "gpu_memory_utilization must be between 0 and 1"
    ELSE IF c.tensor_parallel_size = 0 THEN "tensor_parallel_size must be > 0"
    ELSE IF c.kvcache_block_size = 0 THEN "kvcache_block_size must be > 0"
    ELSE IF c.speculative_decoding /\ c.draft_model = <<>>
    THEN "draft_model must be provided when speculative_decoding is enabled"
    ELSE SpecTokensChecked(c)

\* main.rs:39-41 before LLMEngine::new is called with the config
ConfigInit ==
    /\ config \in CandidateConfigs
    /\ pc = "new"
    /\ request_counter = 0
    /\ seqs = <<>>
    /\ sink = <<>>
    /\ waiting = <<>>
    /\ running = <<>>
    /\ batch = <<>>
    /\ scheduler_lock = "none"
    /\ cache = {}
    /\ alloc = <<>>
    /\ det = <<>>
    /\ tokenizer_errors = {}
    /\ forward = <<>>
    /\ receiver_dropped = {}
    /\ sampler = <<>>

\* llm_engine.rs:26-75: validate passes and the engine is built
Construct ==
    /\ pc = "new"
    /\ validate(config) = "Ok"
    /\ pc' = "idle"
    /\ UNCHANGED <<config, request_counter, seqs, waiting, running, batch, sink,
                   scheduler_lock, cache, others>>

\* llm_engine.rs:26: validate fails and new returns Err (main.rs:67-70 exits)
RejectConfig ==
    /\ pc = "new"
    /\ validate(config) # "Ok"
    /\ pc' = "exit"
    /\ UNCHANGED <<config, request_counter, seqs, waiting, running, batch, sink,
                   scheduler_lock, cache, others>>

ConfigNext ==
    \/ Construct
    \/ RejectConfig

ConfigSpec == ConfigInit /\ [][ConfigNext]_vars

\* the conditions the claim lists
BoundsListed(c) ==
    /\ c.max_num_batched_tokens >= 1
    /\ c.max_num_seqs >= 1
    /\ c.max_model_len >= 1
    /\ c.tensor_parallel_size >= 1
    /\ c.kvcache_block_size >= 1
    /\ c.gpu_memory_utilization >= 0
    /\ c.gpu_memory_utilization <= 100
    /\ ~(c.speculative_decoding /\ c.draft_model = <<>>)

\* C27 as stated: validate accepts a configuration iff the five numeric
\* bounds are >= 1, gpu_memory_utilization is in [0,1] and speculative
\* decoding has its draft model; the default is accepted and the engine is
\* built only from an accepted configuration.
C27_ValidateListed ==
    /\ validate(config) = "Ok" <=> BoundsListed(config)
    /\ validate(DefaultConfig) = "Ok"
    /\ pc = "idle" => validate(config) = "Ok"
    /\ pc = "exit" => validate(config) # "Ok"

\* C27: validate accepts a configuration iff the five numeric bounds and
\* num_speculative_tokens are >= 1, gpu_memory_utilization is in [0,1] and
\* speculative decoding has its draft model; the default is accepted and the
\* engine is built only from an accepted configuration.
C27_ValidateAllBounds ==
    /\ validate(config) = "Ok"
         <=> (BoundsListed(config) /\ config.num_speculative_tokens >= 1)
    /\ validate(DefaultConfig) = "Ok"
    /\ pc = "idle" => validate(config) = "Ok"
    /\ pc = "exit" => validate(config) # "Ok"

\* construction refused for num_speculative_tokens = 0 alone
C27_Witness ==
    /\ pc = "exit"
    /\ BoundsListed(config)
    /\ ~config.speculative_decoding
    /\ config.num_speculative_tokens = 0

(* ---- claims about the lifecycle and the decode phase ---- *)
\* the status changes of the lifecycle the claim lists
LifecycleSteps ==
    {<<"Waiting", "Running">>, <<"Running", "Preempted">>,
     <<"Preempted", "Waiting">>, <<"Running", "Finished">>}

\* C28: the status of a sequence changes only along Waiting -> Running,
\* Running -> Preempted, Preempted -> Waiting and Running -> Finished.
C28_Lifecycle ==
    [][\A id \in Ids :
          \/ seqs'[id].status = seqs[id].status
          \/ <<seqs[id].status, seqs'[id].status>> \in LifecycleSteps]_vars

\* C29: a scheduler step leaves every unfinished running group in running
\* with status Running, in the same order, and puts no group into waiting.
C29_DeferredStayRunning ==
    [][ScheduleTaken
         => /\ \A i \in 1..Len(running) :
                 ~is_finished(seqs[running[i]])
                    => /\ Find(running', running[i])
                       /\ seqs'[running[i]].status = "Running"
            /\ \A j \in 1..Len(waiting') : Find(waiting, waiting'[j])]_vars

(* ---- claims about KV blocks in the engine ---- *)
\* config.rs:27: the block size of the Config::default() that main.rs:39
\* gives the engine
kvcache_block_size == 16

\* llm_engine.rs:16-22, scheduler.rs:14-19: neither the LLMEngine nor the
\* Scheduler holds a BlockAllocator or a BlockTable, and Scheduler::step
\* calls neither allocate nor set_blocks: the only block table there could
\* be is one built apart from the engine (alloc), and the engine adds no
\* entry to it
EngineBlockTable == IF alloc = <<>> THEN <<>> ELSE alloc.table

BlocksOwned(request_id) ==
    IF request_id \in DOMAIN EngineBlockTable
    THEN Len(EngineBlockTable[request_id])
    ELSE 0

CeilDiv(n, d) == (n + d - 1) \div d

\* C30: each running sequence of length L owns ceil(L / kvcache_block_size)
\* KV blocks.
C30_BlocksPerSequence ==
    \A i \in 1..Len(running) :
        BlocksOwned(running[i])
            = CeilDiv(total_tokens(seqs[running[i]]), kvcache_block_size)

(* ---- the executor's inputs and the order of the update ---- *)
MaxErrors == 1            \* failed forward passes followed in KvSpec

\* sequence.rs:15 prompt_token_ids; the model keeps their number, every
\* prompt token stands for the same text token
PromptTokenIds(seq) == [i \in 1..seq.prompt_len |-> CHOOSE t \in TextTokens : TRUE]

\* model_executor.rs:180-189: the input ids and position ids of one entry
ExecutorInputPrompt(seq) ==
    [input_ids |-> PromptTokenIds(seq),
     pos_ids   |-> [i \in 1..seq.prompt_len |-> i - 1]]
ExecutorInput(seq) ==
    IF seq.output_token_ids = <<>>
    THEN [input_ids |-> PromptTokenIds(seq),
          pos_ids   |-> [i \in 1..seq.prompt_len |-> i - 1]]
    ELSE [input_ids |-> <<seq.output_token_ids[Len(seq.output_token_ids)]>>,
          pos_ids   |-> <<seq.prompt_len + Len(seq.output_token_ids) - 1>>]

\* model_executor.rs:176-198: the rows pushed to all_logits for the first k
\* entries of the batch, each with the input it was computed from
ExecutorRowsReversed(b, k) ==
    [i \in 1..k |-> [request_id |-> b[k + 1 - i].request_id,
                     seq        |-> b[k + 1 - i].seq,
                     input      |-> ExecutorInput(b[k + 1 - i].seq)]]
ExecutorRows(b, k) ==
    [i \in 1..k |-> [request_id |-> b[i].request_id,
                     seq        |-> b[i].seq,
                     input      |-> ExecutorInput(b[i].seq)]]

\* the positions the KVCache of a request has been handed so far
FedOf(fed, request_id) ==
    IF request_id \in DOMAIN fed THEN fed[request_id] ELSE <<>>

\* model_executor.rs:194: model.forward(input, pos, req_cache) writes the
\* keys and values of the input positions to the cache of the request
RECURSIVE Feed(_, _)
Feed(fed, rows) ==
    IF rows = <<>> THEN fed
    ELSE LET row == Head(rows)
             now == FedOf(fed, row.request_id) \o row.input.pos_ids
         IN Feed([id \in DOMAIN fed \cup {row.request_id} |->
                    IF id = row.request_id THEN now ELSE fed[id]],
                 Tail(rows))

\* llm_engine.rs:119-152: the loop over the batch with the order of its
\* effects recorded. st carries seqs, sink and the trace; row i of the
\* logits is sampled whether or not the group is found in running.
RECURSIVE UpdateTrace(_, _, _, _, _)
UpdateTrace(b, run, i, tokens, st) ==
    IF i > Len(b) THEN st
    ELSE LET id == b[i].request_id
             sampled == Append(st.trace, [op |-> "sample", row |-> i, request_id |-> id])
             r == UpdateSeq([seqs |-> st.seqs, sink |-> st.sink], id, tokens[i])
             appended == Append(sampled, [op |-> "append", row |-> i, request_id |-> id])
             sent == IF r.sink # st.sink
                     THEN Append(appended, [op |-> "send", row |-> i, request_id |-> id])
                     ELSE appended
             after == IF Find(run, id)
                      THEN [seqs |-> r.seqs, sink |-> r.sink, trace |-> sent]
                      ELSE [st EXCEPT !.trace = sampled]
         IN CHOOSE x \in {UpdateTrace(b, run, i + 1, tokens, v) : v \in {after}} : TRUE

\* forward.rows are the logits rows of the run in progress, forward.trace
\* the effects of the latest update (until the next run), forward.draws the
\* calls of Sampler::sample so far; forward.fed are the positions handed to
\* each request's KVCache and forward.errors the failed runs so far
ExecInit ==
    /\ config \in {c \in Configs : /\ c.max_model_len = MaxConfig
                                    /\ c.max_num_seqs = MaxConfig}
    /\ request_counter = 0
    /\ seqs = <<>>
    /\ sink = <<>>
    /\ waiting = <<>>
    /\ running = <<>>
    /\ batch = <<>>
    /\ pc = "idle"
    /\ scheduler_lock = "none"
    /\ cache = {}
    /\ alloc = <<>>
    /\ det = <<>>
    /\ tokenizer_errors = {}
    /\ sampler = <<>>
    /\ forward = [rows |-> <<>>, fed |-> <<>>, trace |-> <<>>, draws |-> 0,
                  errors |-> 0]
    /\ receiver_dropped = {}

\* main.rs:47-53: the admission task submits MaxRequests short prompts
AddRequestShort ==
    /\ request_counter < MaxRequests
    /\ Admit(BurstPromptLen)

\* llm_engine.rs:106 executor.run(&batch) returns the logits
Forward ==
    /\ pc = "scheduled"
    /\ batch # <<>>
    /\ cache' = CacheAfter(Len(batch))
    /\ forward' = [forward EXCEPT !.rows = ExecutorRows(batch, Len(batch)),
                                  !.trace = <<>>]
    /\ pc' = "forward_done"
    /\ UNCHANGED <<config, request_counter, seqs, waiting, running, batch, sink,
                   scheduler_lock, alloc, det, tokenizer_errors, sampler,
                   receiver_dropped>>

\* llm_engine.rs:106 executor.run(&batch) returns the logits; what each
\* KVCache was handed is recorded
ForwardFeed ==
    /\ pc = "scheduled"
    /\ batch # <<>>
    /\ cache' = CacheAfter(Len(batch))
    /\ forward' = [forward EXCEPT !.fed = Feed(@, ExecutorRows(batch, Len(batch)))]
    /\ pc' = "forward_done"
    /\ UNCHANGED <<config, request_counter, seqs, waiting, running, batch, sink,
                   scheduler_lock, alloc, det, tokenizer_errors, sampler,
                   receiver_dropped>>

\* llm_engine.rs:106 executor.run(&batch)? returns an error at entry k
\* (forward of entry k fails, model_executor.rs:194) or after entry k
\* (Tensor::cat, model_executor.rs:206): step returns Err
ForwardError ==
    /\ pc = "scheduled"
    /\ batch # <<>>
    /\ forward.errors < MaxErrors
    /\ \E k \in 1..Len(batch), done \in 0..Len(batch) :
         /\ done \in {k - 1, k}
         /\ cache' = CacheAfter(k)
         /\ forward' = [forward EXCEPT
                          !.fed = Feed(@, ExecutorRows(batch, done)),
                          !.errors = @ + 1]
    /\ pc' = "idle"
    /\ batch' = <<>>
    /\ UNCHANGED <<config, request_counter, seqs, waiting, running, sink,
                   scheduler_lock, alloc, det, tokenizer_errors, sampler,
                   receiver_dropped>>

\* llm_engine.rs:119-154: row i of the logits gives the token of entry i
UpdateRows ==
    /\ pc = "updating"
    /\ scheduler_lock' = "none"
    /\ \E tokens \in [1..Len(batch) -> Vocab] :
         /\ \A i \in 1..Len(batch) : tokens[i] \in SampleSet(forward.rows[i].seq)
         /\ \E r \in {UpdateTrace(batch, running, 1, tokens,
                        [seqs |-> seqs, sink |-> sink, trace |-> <<>>])} :
               /\ seqs' = r.seqs
               /\ sink' = r.sink
               /\ forward' = [forward EXCEPT !.rows = <<>>,
                                             !.trace = r.trace,
                                             !.draws = @ + Len(batch)]
    /\ batch' = <<>>
    /\ pc' = "idle"
    /\ UNCHANGED <<config, request_counter, waiting, running, cache, alloc, det,
                   tokenizer_errors, sampler, receiver_dropped>>

\* the engine with the rows of each run and the trace of each update
ExecNext ==
    \/ AddRequestShort
    \/ LockForSchedule
    \/ Schedule
    \/ EmptyBatch
    \/ Forward
    \/ RunModelError
    \/ LockForUpdate
    \/ UpdateRows

ExecSpec == ExecInit /\ [][ExecNext]_vars

\* the engine with the positions handed to each KVCache, through at most
\* MaxErrors failed runs
KvNext ==
    \/ AddRequestShort
    \/ LockForSchedule
    \/ Schedule
    \/ EmptyBatch
    \/ ForwardFeed
    \/ ForwardError
    \/ LockForUpdate
    \/ Update

KvSpec == ExecInit /\ [][KvNext]_vars

(* ---- C31 ---- *)
\* the input the claim describes for a sequence: the whole prompt at
\* positions 0..prompt_len-1 when it has no output token, else its last
\* output token at position prompt_len + |output| - 1
IsPrefillInput(input, seq) ==
    /\ input.input_ids = PromptTokenIds(seq)
    /\ Len(input.pos_ids) = seq.prompt_len
    /\ \A p \in 1..seq.prompt_len : input.pos_ids[p] = p - 1

IsDecodeInput(input, seq) ==
    /\ Len(input.input_ids) = 1
    /\ input.input_ids[1] = seq.output_token_ids[Len(seq.output_token_ids)]
    /\ input.pos_ids = <<seq.prompt_len + Len(seq.output_token_ids) - 1>>

\* C31: when the executor has run, the input of every batch entry is the
\* full prompt at positions 0..prompt_len-1 if the sequence has no output
\* token yet, else exactly its last sampled token at position
\* prompt_len + |output| - 1, whichever phase of the scheduler put it in
\* the batch.
C31_ExecutorInput ==
    pc = "forward_done"
    => /\ Len(forward.rows) = Len(batch)
       /\ \A i \in 1..Len(batch) :
            LET seq == seqs[batch[i].request_id]
                input == forward.rows[i].input
            IN IF seq.output_token_ids = <<>>
               THEN IsPrefillInput(input, seq)
               ELSE IsDecodeInput(input, seq)

\* a group re-admitted from waiting with an output token is fed that token
\* alone
C31_Witness ==
    /\ pc = "forward_done"
    /\ \E i \in 1..Len(batch) :
         /\ batch[i].prefill
         /\ seqs[batch[i].request_id].output_token_ids # <<>>
         /\ IsDecodeInput(forward.rows[i].input, seqs[batch[i].request_id])

(* ---- C32 ---- *)
\* the places of the trace t that hold effect op of row i
TraceAt(t, op, i) == {j \in 1..Len(t) : t[j].op = op /\ t[j].row = i}

\* the trace t handles the entries of b one after the other, in the order
\* of b: sample, append, then the send if there is one
InBatchOrder(t, b) ==
    /\ \A j \in 1..Len(t) :
         /\ t[j].row \in 1..Len(b)
         /\ t[j].request_id = b[t[j].row].request_id
    /\ \A j, k \in 1..Len(t) : j < k => t[j].row <= t[k].row
    /\ \A i \in 1..Len(b) :
         /\ Cardinality(TraceAt(t, "sample", i)) = 1
         /\ Cardinality(TraceAt(t, "append", i)) = 1
         /\ Cardinality(TraceAt(t, "send", i)) <= 1
         /\ \A x \in TraceAt(t, "sample", i), y \in TraceAt(t, "append", i) : x < y
         /\ \A y \in TraceAt(t, "append", i), z \in TraceAt(t, "send", i) : y < z

\* sequence s is sequence r or r with one more element
GrowsByAtMostOne(r, s) ==
    /\ Len(s) \in {Len(r), Len(r) + 1}
    /\ SubSeq(s, 1, Len(r)) = r

\* C32: the logits of a run have one row per batch entry, in batch order;
\* the update samples, appends and sends entry by entry in that order; and
\* the tokens and the deltas of one sequence only ever grow at the end, one
\* at a time, the deltas adding up to the text of the tokens.
C32_BatchOrder ==
    [][/\ pc = "forward_done"
          => /\ Len(forward.rows) = Len(batch)
             /\ \A i \in 1..Len(batch) :
                  forward.rows[i].request_id = batch[i].request_id
       /\ StepOk => InBatchOrder(forward'.trace, batch)
       /\ \A id \in Ids :
            /\ GrowsByAtMostOne(seqs[id].output_token_ids, seqs'[id].output_token_ids)
            /\ GrowsByAtMostOne(sink[id], sink'[id])
            /\ Concat(sink'[id]) = Decode(seqs'[id].output_token_ids)]_vars

\* an update of a batch of two entries, each with a delta sent
C32_Witness ==
    /\ pc = "idle"
    /\ Len(forward.trace) = 6
    /\ forward.trace[1].request_id # forward.trace[6].request_id

(* ---- C33 ---- *)
\* nothing the executor, the sampler or the update touch changes
StepHasNoEffect ==
    /\ \A id \in Ids : seqs'[id] = seqs[id] /\ sink'[id] = sink[id]
    /\ cache' = cache
    /\ forward' = forward

\* C33: a scheduler step that returns an empty batch changes no sequence,
\* and from there the engine step returns at once: the executor and the
\* sampler are not called and no sequence, sink, KV cache or sampler
\* stream state changes.
C33_EmptyBatchNoEffect ==
    [][/\ (ScheduleTaken /\ batch' = <<>>) => StepHasNoEffect
       /\ (pc = "scheduled" /\ batch = <<>>)
            => /\ pc' \in {"scheduled", "idle"}
               /\ StepHasNoEffect]_vars

\* the scheduler has returned an empty batch while a request waits and
\* another has been sampled for
C33_Witness ==
    /\ pc = "scheduled"
    /\ batch = <<>>
    /\ waiting # <<>>
    /\ forward.draws > 0

(* ---- callers that go away: server.rs:86-127 ---- *)
\* llm_engine.rs:141: let _ = tx.send(new_text); the result of the send is
\* discarded, so the sequence is the same whether or not it succeeded
AfterSendFinish(seq, ok) == IF ok THEN seq ELSE set_status(seq, "Finished")
AfterSend(seq, ok) == seq

\* llm_engine.rs:124-150 for one batch entry when some receivers are gone:
\* UnboundedSender::send fails at once, and delivers nothing, when the
\* receiver has been dropped
UpdateSeqClient(st, request_id, next_token, dropped) ==
    LET r == UpdateSeq(st, request_id, next_token)
        sends == r.sink # st.sink
        ok == request_id \notin dropped
    IN [seqs |-> [r.seqs EXCEPT ![request_id] = AfterSend(@, ~sends \/ ok)],
        sink |-> IF ok THEN r.sink ELSE st.sink]

\* llm_engine.rs:119-152
RECURSIVE UpdateBatchClient(_, _, _, _, _, _)
UpdateBatchClient(b, run, i, tokens, dropped, st) ==
    IF i > Len(b) THEN st
    ELSE LET after == IF Find(run, b[i].request_id)
                      THEN UpdateSeqClient(st, b[i].request_id, tokens[i], dropped)
                      ELSE st
         IN CHOOSE r \in {UpdateBatchClient(b, run, i + 1, tokens, dropped, v) :
                             v \in {after}} : TRUE

\* server.rs:99-127: the handler (or the response stream) of a request is
\* dropped when its client disconnects, and rx with it
DropReceiver ==
    /\ \E id \in Ids \ receiver_dropped :
         receiver_dropped' = receiver_dropped \cup {id}
    /\ UNCHANGED <<engine, alloc, det, tokenizer_errors, sampler, forward>>

\* llm_engine.rs:119-154
UpdateClient ==
    /\ pc = "updating"
    /\ scheduler_lock' = "none"
    /\ \E tokens \in [1..Len(batch) -> Vocab] :
         /\ \A i \in 1..Len(batch) : tokens[i] \in SampleSet(batch[i].seq)
         /\ LET r == UpdateBatchClient(batch, running, 1, tokens, receiver_dropped,
                        [seqs |-> seqs, sink |-> sink])
            IN /\ seqs' = r.seqs
               /\ sink' = r.sink
    /\ batch' = <<>>
    /\ pc' = "idle"
    /\ UNCHANGED <<config, request_counter, waiting, running, cache, others>>

\* the engine with its largest limits: none of them bears on the sinks
ClientInit ==
    /\ Init
    /\ config = [max_num_batched_tokens |-> MaxConfig,
                 max_num_seqs           |-> MaxConfig,
                 max_model_len          |-> MaxConfig]

ClientNext ==
    \/ AddRequestShort
    \/ DropReceiver
    \/ LockForSchedule
    \/ Schedule
    \/ EmptyBatch
    \/ RunModel
    \/ RunModelError
    \/ LockForUpdate
    \/ UpdateClient

ClientSpec == ClientInit /\ [][ClientNext]_vars

(* ---- C34 ---- *)
\* C34: a receiver dropped by the caller only makes sends fail. The update
\* has no way out but the normal end of the step; a sequence whose receiver is
\* gone gets its token like any other, finishes only on the EOS token and,
\* at the head of running, is scheduled again; nothing reaches its sink;
\* the sinks of the other requests still hold the whole text.
C34_ClosedSinkHarmless ==
    [][/\ pc = "updating" => pc' \in {"updating", "idle"}
       /\ StepOk
            => \A id \in BatchIds(batch) :
                 /\ Len(seqs'[id].output_token_ids) = Len(seqs[id].output_token_ids) + 1
                 /\ is_finished(seqs'[id])
                      <=> seqs'[id].output_token_ids[Len(seqs'[id].output_token_ids)] = EosToken
       /\ ScheduleTaken
            => \A id \in receiver_dropped :
                 (running # <<>> /\ running[1] = id /\ ~is_finished(seqs[id]))
                     => id \in BatchIds(batch')
       /\ \A id \in Ids :
            /\ id \in receiver_dropped => sink'[id] = sink[id]
            /\ id \notin receiver_dropped'
                 => Concat(sink'[id]) = Decode(seqs'[id].output_token_ids)]_vars

\* a request whose receiver is gone has produced text that its sink did not
\* get, and is in a batch with a request whose receiver is there
C34_Witness ==
    /\ pc = "scheduled"
    /\ \E id \in BatchIds(batch) \cap receiver_dropped :
         /\ Concat(sink[id]) # seqs[id].output_text
         /\ \E other \in BatchIds(batch) \ receiver_dropped :
              seqs[other].output_text # <<>>

(* ---- C35 ---- *)
\* every group admitted so far had at least one token when it was admitted
NoEmptyGroup == \A id \in Ids : seqs[id].prompt_len >= 1

\* C35: while every admitted group has at least one token, running holds
\* at most max_num_batched_tokens groups after a scheduler step, and an
\* unfinished group of running is never moved back to waiting: it stays in
\* running and is in the batch of every scheduler step.
C35_NoPreemption ==
    [][NoEmptyGroup
         => /\ ScheduleTaken => Len(running') <= config.max_num_batched_tokens
            /\ \A id \in Ids :
                 (InRunning(id) /\ ~is_finished(seqs[id]))
                     => /\ Find(running', id)
                        /\ ~Find(waiting', id)
                        /\ seqs'[id].status # "Waiting"
                        /\ ScheduleTaken => id \in BatchIds(batch')]_vars

\* two groups with tokens fill the budget, one of them in a later tick of
\* its life
C35_Witness ==
    /\ NoEmptyGroup
    /\ pc = "scheduled"
    /\ Len(running) = config.max_num_batched_tokens
    /\ Len(batch) = 2
    /\ \E i \in 1..Len(batch) : ~batch[i].prefill /\ batch[i].seq.output_token_ids # <<>>

(* ---- C36 ---- *)
\* the step in progress holds a batch that has not been updated yet
BatchInFlight == pc \in {"scheduled", "forward_done"} /\ batch # <<>>

\* C36: an add_request that runs while a batch is in flight leaves the
\* batch, running and every existing sequence as they are and puts the new
\* group, with status Waiting, at the tail of waiting; the update that
\* follows finds every batch entry in running, appends exactly one token to
\* it and touches no other sequence.
C36_AdmissionDuringStep ==
    [][/\ (BatchInFlight /\ request_counter' # request_counter)
            => /\ batch' = batch
               /\ running' = running
               /\ waiting' = Append(waiting, request_counter')
               /\ seqs'[request_counter'].status = "Waiting"
               /\ \A id \in Ids : seqs'[id] = seqs[id]
       /\ StepOk
            => /\ \A i \in 1..Len(batch) :
                    /\ InRunning(batch[i].request_id)
                    /\ Len(seqs'[batch[i].request_id].output_token_ids)
                         = Len(batch[i].seq.output_token_ids) + 1
               /\ \A id \in Ids \ BatchIds(batch) : seqs'[id] = seqs[id]]_vars

\* the forward pass of a batch is done and the only waiting group would
\* have been promoted with it had it been there at the scheduler step
C36_Witness ==
    /\ pc = "forward_done"
    /\ batch # <<>>
    /\ Len(waiting) = 1
    /\ seqs[waiting[1]].prompt_len >= 1
    /\ seqs[waiting[1]].status = "Waiting"
    /\ PrefillFits(Charged(batch), total_tokens(seqs[waiting[1]]), Len(running))

(* ---- the two tasks and the locks: main.rs:44-63 ---- *)
\* llm_engine.rs:109: the sampler lock is taken by the step loop alone and
\* is held from there to the end of the step
SamplerLockHolder == IF pc = "updating" THEN "step" ELSE "none"

\* the engine with its largest limits: none of them bears on the locks
LockInit ==
    /\ Init
    /\ config = [max_num_batched_tokens |-> MaxConfig,
                 max_num_seqs           |-> MaxConfig,
                 max_model_len          |-> MaxConfig]

\* main.rs:47-53: the admission task; its tokenizer may fail
AdmissionTask ==
    \/ AddRequest
    \/ AddRequestEncodeError

\* main.rs:56-63: the step loop, one action for each place it can be at
StepLoop ==
    \/ LockForSchedule
    \/ Schedule
    \/ EmptyBatch
    \/ RunModel
    \/ RunModelError
    \/ LockForUpdate
    \/ Update

LockNext ==
    \/ AdmissionTask
    \/ StepLoop

\* both tasks keep running, the executor returns (with logits or with an
\* error), and the tokio Mutex is fair: it queues its waiters, so an
\* add_request that waits for the scheduler lock gets it when the step
\* loop releases it
LockSpec ==
    /\ LockInit
    /\ [][LockNext]_vars
    /\ WF_vars(StepLoop)
    /\ SF_vars(AdmissionTask)

\* every lock the step loop asks for is granted
StepLocksGranted ==
    /\ (pc = "idle") ~> (pc = "selecting" /\ scheduler_lock = "step")
    /\ (pc = "forward_done")
          ~> (pc = "updating" /\ scheduler_lock = "step" /\ SamplerLockHolder = "step")

\* request n was dropped by add_request before it asked for the lock
EncodeFailed(n) == n \in Ids /\ seqs[n].status = "Dropped"

C38_PositionsOnce ==
    \A id \in DOMAIN forward.fed :
        \A p \in 1..Len(forward.fed[id]) : forward.fed[id][p] = p - 1

(* ---- C39 ---- *)
\* C39: after any calls of allocate and free, with any ids, the free pool
\* holds no block id twice and only ids in 0..num_blocks-1, and holds no id
\* that is handed out and not freed, so that allocate cannot return one.
C39_PoolWellFormed ==
    LET pool == alloc.free_blocks IN
    /\ \A i, j \in 1..Len(pool) : i # j => pool[i] # pool[j]
    /\ \A i \in 1..Len(pool) : pool[i] \in 0..(alloc.total - 1)
    /\ \A i \in 1..Len(pool) : pool[i] \notin alloc.owned

====
